---- MODULE Spec2Model ----
(***************************************************************************)
(* Model of vulture/config.py: retrieval of the configuration values from  *)
(* the command line and from pyproject.toml (make_config and its helpers). *)
(*                                                                         *)
(* Representation.  A Python str is a sequence of one-character strings.   *)
(* A Python value is a record [t |-> <type name>, v |-> <payload>], so     *)
(* that type(value) is the field t and a bool is never equal to an int.    *)
(* A dict is a function from key names to values.  A call either returns   *)
(* or raises: [exc |-> "", value |-> v] or [exc |-> <exception>, ...].     *)
(***************************************************************************)
EXTENDS Integers, Sequences, FiniteSets, TLC

VARIABLES
    argv,               \* make_config: the command line (option -> raw text)
    tomlfile,           \* make_config: the tomlfile argument, or NoFile
    pyproject,          \* the parsed pyproject.toml of the cwd, or NoFile
    fs,                 \* the file system: directories and .gitignore files
    cwd,                \* the current working directory (a resolved path)
    pc,                 \* position in make_config / in the function call
    cli_config,         \* make_config: local cli_config
    config,             \* make_config: local config
    detected_toml_path, \* make_config: local detected_toml_path
    stdout,             \* the messages printed so far
    calls,              \* the helper calls make_config made so far, in order
    exc,                \* the exception that ended make_config, or ""
    arg,                \* the argument of a function-level call
    ret                 \* the outcome of a function-level call

vars == <<argv, tomlfile, pyproject, fs, cwd, pc, cli_config, config,
          detected_toml_path, stdout, calls, exc, arg, ret>>

-----------------------------------------------------------------------------
(* Bounds of the model. *)

\* Largest number of keys in a mapping handed to _check_input_config/_parse_toml.
MaxData == 2
\* Largest number of options given in total on the command line and in the TOML.
MaxGiven == 3
\* Largest number of paths handed to find_gitignore.
MaxPaths == 2

-----------------------------------------------------------------------------
(* Python values. *)

PyInt(n) == [t |-> "int", v |-> n]
PyBool(b) == [t |-> "bool", v |-> b]
PyStr(s) == [t |-> "str", v |-> s]
PyList(l) == [t |-> "list", v |-> l]
PyDict(d) == [t |-> "dict", v |-> d]

EmptyDict == <<>>
NoFile == [t |-> "NoneType", v |-> <<>>]

Return(v) == [exc |-> "", value |-> v]
Raise(e) == [exc |-> e, value |-> <<>>]

\* type(value)
TypeOf(value) == value.t

\* dict.get(key, default) on a dict d
DictGet(d, key, default) == IF key \in DOMAIN d THEN d[key] ELSE default

\* d restricted to the keys in S
Restrict(d, S) == [k \in S |-> d[k]]

-----------------------------------------------------------------------------
(* DEFAULTS, _check_input_config, _check_output_config. *)

DEFAULTS ==
    [k \in {"min_confidence", "paths", "exclude", "ignore_decorators",
            "ignore_names", "make_whitelist", "sort_by_size", "verbose"} |->
        CASE k = "min_confidence" -> PyInt(0)
          [] k \in {"paths", "exclude", "ignore_decorators", "ignore_names"}
                -> PyList(<<>>)
          [] OTHER -> PyBool(FALSE)]

\* The isinstance test the linter suggests: a bool passes for an int.
IsInstanceOfDefault(key, value) ==
    \/ TypeOf(value) = TypeOf(DEFAULTS[key])
    \/ TypeOf(value) = "bool" /\ TypeOf(DEFAULTS[key]) = "int"

\* `type(value) is not type(DEFAULTS[key])` negated: the value is acceptable.
HasTypeOfDefault(key, value) == TypeOf(value) = TypeOf(DEFAULTS[key])

\* The loop of _check_input_config over the items not yet visited.  It ends
\* at the first offending item; the text of the message is left out.
RECURSIVE CheckItems(_, _)
CheckItems(data, keys) ==
    IF keys = {} THEN Return(<<>>)
    ELSE LET key == CHOOSE k \in keys : TRUE
         IN  IF key \notin DOMAIN DEFAULTS THEN Raise("InputError")
             ELSE IF ~HasTypeOfDefault(key, data[key]) THEN Raise("InputError")
             ELSE CheckItems(data, keys \ {key})

\* _check_input_config without the unknown-key test: only the types of the
\* known keys are checked.
CheckInputKnownKeys(data) ==
    CheckItems(data, DOMAIN data \cap DOMAIN DEFAULTS)

_check_input_config(data) == CheckItems(data, DOMAIN data)

_check_output_config(cfg) ==
    IF cfg["paths"].v = <<>> THEN Raise("InputError") ELSE Return(<<>>)

-----------------------------------------------------------------------------
(* _parse_toml.  infile is the document tomllib.load yields: the dict of   *)
(* the top-level keys.                                                     *)

\* _parse_toml without the call of _check_input_config.
ParseTomlUnchecked(infile) ==
    LET data == infile
        tool == DictGet(data.v, "tool", PyDict(EmptyDict))
    IN  IF TypeOf(tool) # "dict" THEN Raise("AttributeError")
        ELSE LET settings == DictGet(tool.v, "vulture", PyDict(EmptyDict))
             IN  IF TypeOf(settings) # "dict" THEN Raise("AttributeError")
                 ELSE Return(settings.v)

_parse_toml(infile) ==
    LET data == infile
        tool == DictGet(data.v, "tool", PyDict(EmptyDict))
    IN  IF TypeOf(tool) # "dict" THEN Raise("AttributeError")
        ELSE LET settings == DictGet(tool.v, "vulture", PyDict(EmptyDict))
             IN  IF TypeOf(settings) # "dict" THEN Raise("AttributeError")
                 ELSE IF _check_input_config(settings.v).exc # ""
                      THEN _check_input_config(settings.v)
                      ELSE Return(settings.v)

-----------------------------------------------------------------------------
(* Strings: str.split, int(), and the parts of a pathlib.Path.              *)

\* str.split(sep): acc holds the finished pieces, cur the piece being read.
RECURSIVE SplitAcc(_, _, _, _)
SplitAcc(s, sep, acc, cur) ==
    IF s = <<>> THEN Append(acc, cur)
    ELSE IF Head(s) = sep
         THEN SplitAcc(Tail(s), sep, Append(acc, cur), <<>>)
         ELSE SplitAcc(Tail(s), sep, acc, Append(cur, Head(s)))

\* csv(exclude) of _parse_args: exclude.split(",")
csv(exclude) == SplitAcc(exclude, ",", <<>>, <<>>)

Digits == {"0", "1", "2", "3", "4", "5", "6", "7", "8", "9"}

DigitValue(c) ==
    CASE c = "0" -> 0 [] c = "1" -> 1 [] c = "2" -> 2 [] c = "3" -> 3
      [] c = "4" -> 4 [] c = "5" -> 5 [] c = "6" -> 6 [] c = "7" -> 7
      [] c = "8" -> 8 [] c = "9" -> 9

\* Whether int(s) succeeds: an optional sign and at least one digit.
IsIntLiteral(s) ==
    LET body == IF s # <<>> /\ Head(s) \in {"-", "+"} THEN Tail(s) ELSE s
    IN  body # <<>> /\ \A i \in 1..Len(body) : body[i] \in Digits

RECURSIVE DecimalValue(_, _)
DecimalValue(s, acc) ==
    IF s = <<>> THEN acc
    ELSE DecimalValue(Tail(s), 10 * acc + DigitValue(Head(s)))

\* int(s) for a string IsIntLiteral accepts
IntOf(s) ==
    IF Head(s) = "-" THEN 0 - DecimalValue(Tail(s), 0)
    ELSE IF Head(s) = "+" THEN DecimalValue(Tail(s), 0)
    ELSE DecimalValue(s, 0)

Front(s) == SubSeq(s, 1, Len(s) - 1)

\* The components of Path(s): empty and "." components are dropped.
PathParts(s) ==
    SelectSeq(SplitAcc(s, "/", <<>>, <<>>),
              LAMBDA c : c # <<>> /\ c # <<".">>)

IsAbsolute(s) == s # <<>> /\ Head(s) = "/"

\* The ".." components of a path taken away, left to right.
RECURSIVE Normalize(_, _)
Normalize(parts, acc) ==
    IF parts = <<>> THEN acc
    ELSE IF Head(parts) = <<".", ".">>
         THEN Normalize(Tail(parts), IF acc = <<>> THEN acc ELSE Front(acc))
         ELSE Normalize(Tail(parts), Append(acc, Head(parts)))

\* Path(s).resolve() in working directory dir: the components below the root.
Resolve(s, dir) ==
    Normalize((IF IsAbsolute(s) THEN <<>> ELSE dir) \o PathParts(s), <<>>)

-----------------------------------------------------------------------------
(* find_gitignore and _parse_gitignore_excludes.  A resolved path is the   *)
(* sequence of its components below the root; fsys.dirs is the set of the  *)
(* directories and fsys.lines maps each regular .gitignore file to its      *)
(* lines.                                                                   *)

None == [t |-> "NoneType", v |-> <<>>]
PyPath(parts) == [t |-> "Path", v |-> parts]

GitignoreName == <<".gitignore">>

IsPrefix(p, q) == Len(p) <= Len(q) /\ SubSeq(q, 1, Len(p)) = p

\* list(path.parents)
Parents(path) == {SubSeq(path, 1, n) : n \in 0..(Len(path) - 1)}

\* list(path.parents) + ([path] if path.is_dir() else [])
PathParents(path, fsys) ==
    Parents(path) \cup (IF path \in fsys.dirs THEN {path} ELSE {})

\* min instead of max: the common parent closest to the root.
CommonBaseMin(resolved, fsys) ==
    LET common == {p \in PathParents(resolved[1], fsys) :
                      \A i \in 1..Len(resolved) :
                          p \in PathParents(resolved[i], fsys)}
    IN  CHOOSE m \in common : \A p \in common : IsPrefix(m, p)

\* max(set.intersection(...), key=lambda path: path.parts).  The common
\* parents are prefixes of one path, so the greatest tuple of parts is the
\* one every other is a prefix of.
CommonBase(resolved, fsys) ==
    LET common == {p \in PathParents(resolved[1], fsys) :
                      \A i \in 1..Len(resolved) :
                          p \in PathParents(resolved[i], fsys)}
    IN  CHOOSE m \in common : \A p \in common : IsPrefix(p, m)

\* for path in (common_base, *common_base.parents): the first .gitignore
RECURSIVE ClosestGitignore(_, _)
ClosestGitignore(path, fsys) ==
    IF Append(path, GitignoreName) \in DOMAIN fsys.lines
    THEN PyPath(Append(path, GitignoreName))
    ELSE IF path = <<>> THEN None
    ELSE ClosestGitignore(Front(path), fsys)

\* paths is None, a str or a list of str.
find_gitignore(paths, dir, fsys) ==
    LET given == IF paths.v = <<>> THEN <<>>
                 ELSE IF TypeOf(paths) = "str" THEN <<paths.v>>
                 ELSE paths.v
        resolved == IF given = <<>> THEN <<dir>>
                    ELSE [i \in 1..Len(given) |-> Resolve(given[i], dir)]
    IN  ClosestGitignore(CommonBase(resolved, fsys), fsys)

\* pattern.regex of pathspec's gitwildmatch pattern for one line: none for a
\* blank line or a comment, else a regex that stands for the line.
GitWildMatchRegex(line) ==
    IF line = <<>> \/ Head(line) = "#" THEN <<"None">>
    ELSE <<"gitwildmatch:">> \o line

\* The orders in which a set can be listed.
Listings(S) ==
    {l \in [1..Cardinality(S) -> S] :
        \A i, j \in 1..Cardinality(S) : l[i] = l[j] => i = j}

\* No pattern is read from the file.
ParseGitignoreNothing(gitignore_path, fsys) == {<<>>}

\* list({pattern.regex for pattern in spec.patterns}): the set's order is
\* not fixed, so the outcome is any listing of the set.
_parse_gitignore_excludes(gitignore_path, fsys) ==
    LET lines == fsys.lines[gitignore_path]
    IN  Listings({GitWildMatchRegex(lines[i]) : i \in 1..Len(lines)})

-----------------------------------------------------------------------------
(* fnmatch_to_regex of vulture/utils.py (the glob matcher).                 *)

HasWildcard(pattern) ==
    \E i \in 1..Len(pattern) : pattern[i] \in {"*", "?", "["}

RECURSIVE GlobBody(_)
GlobBody(pattern) ==
    IF pattern = <<>> THEN <<>>
    ELSE (CASE Head(pattern) = "*" -> <<".*">>
            [] Head(pattern) = "?" -> <<".">>
            [] OTHER -> <<Head(pattern)>>) \o GlobBody(Tail(pattern))

\* A pattern without wildcards stands for *pattern*; the regex is anchored.
fnmatch_to_regex(pattern) ==
    LET wrapped == IF HasWildcard(pattern) THEN pattern
                   ELSE <<"*">> \o pattern \o <<"*">>
    IN  <<"(?s:">> \o GlobBody(wrapped) \o <<")\\Z">>

-----------------------------------------------------------------------------
(* _parse_args.  The command line is held as the options it gives: a dict  *)
(* from the option's dest to its raw text ("paths": the list of the         *)
(* positional arguments, at least one; a flag: present; "version": the      *)
(* --version action).                                                       *)

\* The sentinel `missing = object()`
missing == [t |-> "object", v |-> <<>>]

ListOptions == {"exclude", "ignore_decorators", "ignore_names"}
FlagOptions == {"make_whitelist", "sort_by_size", "verbose"}

\* A flag that is not given is stored as False (store_true's own default).
NamespaceValueFalse(args, dest) ==
    IF dest \notin DOMAIN args
    THEN (IF dest \in FlagOptions THEN PyBool(FALSE) ELSE missing)
    ELSE CASE dest \in ListOptions -> PyList(csv(args[dest].v))
           [] dest = "min_confidence" -> PyInt(IntOf(args[dest].v))
           [] dest \in FlagOptions -> PyBool(TRUE)
           [] OTHER -> args[dest]

\* The attribute of the namespace for one add_argument: default=missing,
\* type=csv, type=int, action="store_true", nargs="*".
NamespaceValue(args, dest) ==
    IF dest \notin DOMAIN args THEN missing
    ELSE CASE dest \in ListOptions -> PyList(csv(args[dest].v))
           [] dest = "min_confidence" -> PyInt(IntOf(args[dest].v))
           [] dest \in FlagOptions -> PyBool(TRUE)
           [] OTHER -> args[dest]

\* parser.parse_args(args): --version and an argument int() rejects end the
\* process; the exit status is left out.
ParseArgsNamespace(args) ==
    IF "version" \in DOMAIN args THEN Raise("SystemExit")
    ELSE IF "min_confidence" \in DOMAIN args
            /\ ~IsIntLiteral(args["min_confidence"].v)
         THEN Raise("SystemExit")
    ELSE Return([dest \in DOMAIN DEFAULTS |-> NamespaceValue(args, dest)])

_parse_args(args) ==
    LET parsed == ParseArgsNamespace(args)
    IN  IF parsed.exc # "" THEN parsed
        ELSE LET namespace == parsed.value
                 cli_args == Restrict(namespace,
                                {key \in DOMAIN namespace :
                                    namespace[key] # missing})
             IN  IF _check_input_config(cli_args).exc # ""
                 THEN _check_input_config(cli_args)
                 ELSE Return(cli_args)

-----------------------------------------------------------------------------
(* make_config, one action per statement group, in the order of the code.   *)

\* The sanity check moved before the report and the exclude resolution.
NextStepCheckEarly(step) ==
    CASE step = "parse_args" -> "load_toml"
      [] step = "load_toml" -> "merge"
      [] step = "merge" -> "check"
      [] step = "check" -> "report"
      [] step = "report" -> "exclude"
      [] step = "exclude" -> "returned"

\* The statement group that follows one that ended normally; the sanity
\* check comes last and is followed by `return config`.
NextStep(step) ==
    CASE step = "parse_args" -> "load_toml"
      [] step = "load_toml" -> "merge"
      [] step = "merge" -> "report"
      [] step = "report" -> "exclude"
      [] step = "exclude" -> "check"
      [] step = "check" -> "returned"

\* The TOML options overwrite the CLI options.
MergeTomlOverCli(toml_config, cli) == (toml_config @@ cli) @@ DEFAULTS

\* config.update(cli_config), then config.setdefault(key, value) for each
\* item of DEFAULTS.
Merge(toml_config, cli) == (cli @@ toml_config) @@ DEFAULTS

\* The patterns are kept as they are.
TranslateExcludeKept(patterns) == patterns

\* [fnmatch_to_regex(p) for p in config["exclude"]]
TranslateExclude(patterns) ==
    [i \in 1..Len(patterns) |-> fnmatch_to_regex(patterns[i])]

\* find_gitignore is called without the paths.
LookupPathsNone(cfg) == None

\* The argument of find_gitignore(config["paths"])
LookupPaths(cfg) == cfg["paths"]

\* The sanity check lets every config through.
CheckOutputNone(cfg) == Return(<<>>)

\* make_config's call of _check_output_config(config)
CheckOutput(cfg) == _check_output_config(cfg)

ReadingMessage == "Reading configuration from"
WarningMessage == "Warning: No .gitignore found in the project tree."

\* cli_config = _parse_args(argv)
ParseArgs ==
    /\ pc = "parse_args"
    /\ LET r == _parse_args(argv)
       IN  /\ calls' = Append(calls, "_parse_args")
           /\ IF r.exc = ""
              THEN /\ cli_config' = r.value
                   /\ pc' = NextStep(pc)
                   /\ exc' = exc
              ELSE /\ cli_config' = cli_config
                   /\ pc' = "raised"
                   /\ exc' = r.exc
    /\ UNCHANGED <<argv, tomlfile, pyproject, fs, cwd, config,
                   detected_toml_path, stdout, arg, ret>>

\* if tomlfile: ... else: toml_path = Path("pyproject.toml").resolve() ...
LoadToml ==
    /\ pc = "load_toml"
    /\ LET infile == IF tomlfile # NoFile THEN tomlfile ELSE pyproject
           r == IF infile # NoFile THEN _parse_toml(infile)
                ELSE Return(EmptyDict)
       IN  /\ calls' = IF infile # NoFile THEN Append(calls, "_parse_toml")
                       ELSE calls
           /\ IF r.exc = ""
              THEN /\ config' = r.value
                   /\ detected_toml_path' =
                          IF tomlfile # NoFile THEN "tomlfile"
                          ELSE IF pyproject # NoFile THEN "pyproject.toml"
                          ELSE ""
                   /\ pc' = NextStep(pc)
                   /\ exc' = exc
              ELSE /\ config' = config
                   /\ detected_toml_path' = detected_toml_path
                   /\ pc' = "raised"
                   /\ exc' = r.exc
    /\ UNCHANGED <<argv, tomlfile, pyproject, fs, cwd, cli_config, stdout,
                   arg, ret>>

\* config.update(cli_config); for key, value in DEFAULTS.items(): ...
MergeConfig ==
    /\ pc = "merge"
    /\ config' = Merge(config, cli_config)
    /\ pc' = NextStep(pc)
    /\ UNCHANGED <<argv, tomlfile, pyproject, fs, cwd, cli_config,
                   detected_toml_path, stdout, calls, exc, arg, ret>>

\* if detected_toml_path and config["verbose"]: print(...)
ReportToml ==
    /\ pc = "report"
    /\ stdout' = IF detected_toml_path # "" /\ config["verbose"].v
                 THEN Append(stdout, ReadingMessage)
                 ELSE stdout
    /\ pc' = NextStep(pc)
    /\ UNCHANGED <<argv, tomlfile, pyproject, fs, cwd, cli_config, config,
                   detected_toml_path, calls, exc, arg, ret>>

\* if not config["exclude"]: gitignore_path = find_gitignore(...) and
\* gitignore_path found: config["exclude"] = _parse_gitignore_excludes(...)
ExcludeFromGitignore ==
    /\ pc = "exclude"
    /\ config["exclude"].v = <<>>
    /\ LET gitignore_path == find_gitignore(LookupPaths(config), cwd, fs)
       IN  /\ gitignore_path # None
           /\ \E excludes \in _parse_gitignore_excludes(gitignore_path.v, fs) :
                 config' = [config EXCEPT !["exclude"] = PyList(excludes)]
    /\ calls' = calls \o <<"find_gitignore", "_parse_gitignore_excludes">>
    /\ pc' = NextStep(pc)
    /\ UNCHANGED <<argv, tomlfile, pyproject, fs, cwd, cli_config,
                   detected_toml_path, stdout, exc, arg, ret>>

\* if not config["exclude"]: ... else: print("Warning: ...")
ExcludeNoGitignore ==
    /\ pc = "exclude"
    /\ config["exclude"].v = <<>>
    /\ find_gitignore(LookupPaths(config), cwd, fs) = None
    /\ calls' = Append(calls, "find_gitignore")
    /\ stdout' = Append(stdout, WarningMessage)
    /\ pc' = NextStep(pc)
    /\ UNCHANGED <<argv, tomlfile, pyproject, fs, cwd, cli_config, config,
                   detected_toml_path, exc, arg, ret>>

\* else: config["exclude"] = [fnmatch_to_regex(p) for p in config["exclude"]]
ExcludeExplicit ==
    /\ pc = "exclude"
    /\ config["exclude"].v # <<>>
    /\ config' = [config EXCEPT
                     !["exclude"] = PyList(TranslateExclude(config["exclude"].v))]
    /\ calls' = Append(calls, "fnmatch_to_regex")
    /\ pc' = NextStep(pc)
    /\ UNCHANGED <<argv, tomlfile, pyproject, fs, cwd, cli_config,
                   detected_toml_path, stdout, exc, arg, ret>>

\* _check_output_config(config); return config
CheckOutputConfig ==
    /\ pc = "check"
    /\ calls' = Append(calls, "_check_output_config")
    /\ IF CheckOutput(config).exc = ""
       THEN pc' = NextStep(pc) /\ exc' = exc
       ELSE pc' = "raised" /\ exc' = CheckOutput(config).exc
    /\ UNCHANGED <<argv, tomlfile, pyproject, fs, cwd, cli_config, config,
                   detected_toml_path, stdout, arg, ret>>

-----------------------------------------------------------------------------
(* The inputs the model draws from. *)

\* The dicts over the keys S whose value for k is one of pool[k].
RECURSIVE Fill(_, _)
Fill(S, pool) ==
    IF S = {} THEN {EmptyDict}
    ELSE LET k == CHOOSE x \in S : TRUE
         IN  {(k :> v) @@ d : v \in pool[k], d \in Fill(S \ {k}, pool)}

\* The subsets of S of at most n elements.
UpTo(S, n) == {T \in SUBSET S : Cardinality(T) <= n}

\* Two directory names, and the tree of the project: a project root with a
\* .gitignore, a submodule a with its own .gitignore and a file a/a, and a
\* directory b without one.
DirA == <<"a">>
DirB == <<"b">>

FixtureFS ==
    [dirs |-> {<<>>, <<DirA>>, <<DirB>>},
     lines |-> (<<GitignoreName>> :> << <<"x">>, <<"#">>, <<"x">> >>)
               @@ (<<DirA, GitignoreName>> :> << <<"y">> >>)]

\* The same tree with no .gitignore anywhere.
BareFS == [dirs |-> {<<>>, <<DirA>>, <<DirB>>}, lines |-> EmptyDict]

CliOptions == DOMAIN DEFAULTS \cup {"version"}

\* What the command line may give for each option.
CliPool ==
    [opt \in CliOptions |->
        CASE opt = "paths" ->
                 {PyList(<< <<".", ".", "/", "a", "/", "a">> >>),
                  PyList(<< <<".", ".", "/", "a">>, <<".">> >>)}
          [] opt = "exclude" ->
                 {PyStr(<<"c">>), PyStr(<<"c", ",", "*", "d">>)}
          [] opt = "ignore_decorators" -> {PyStr(<<"@", "c">>)}
          [] opt = "ignore_names" -> {PyStr(<<"c", "*">>)}
          [] opt = "min_confidence" ->
                 {PyStr(<<"2", "0">>), PyStr(<<"2", "0", "0">>),
                  PyStr(<<"x">>)}
          [] OTHER -> {PyBool(TRUE)}]

TomlKeys == DOMAIN DEFAULTS \cup {"unknown_key_1"}

\* What the [tool.vulture] table may give for each key.
TomlPool ==
    [key \in TomlKeys |->
        CASE key = "paths" -> {PyList(<< <<"/", "a">> >>), PyList(<<>>)}
          [] key = "exclude" -> {PyList(<< <<"t", "?">> >>), PyList(<<>>)}
          [] key = "ignore_decorators" -> {PyList(<< <<"@", "t">> >>)}
          [] key = "ignore_names" -> {PyList(<< <<"t">> >>)}
          [] key = "min_confidence" -> {PyInt(10), PyBool(TRUE)}
          [] key = "make_whitelist" -> {PyBool(TRUE)}
          [] key = "sort_by_size" -> {PyBool(FALSE)}
          [] key = "verbose" -> {PyBool(TRUE), PyBool(FALSE), PyInt(1)}
          [] OTHER -> {PyInt(1)}]

\* The document of a TOML file whose [tool.vulture] table is `table`.
Doc(table) == PyDict("tool" :> PyDict("vulture" :> PyDict(table)))

\* Documents without a [tool.vulture] table: an empty file, `tool = 1`,
\* a [tool] table without vulture, `vulture = "x"` under [tool].
OddDocs ==
    {PyDict(EmptyDict),
     PyDict("tool" :> PyInt(1)),
     PyDict("tool" :> PyDict("foo" :> PyDict(EmptyDict))),
     PyDict("tool" :> PyDict("vulture" :> PyStr(<<"x">>)))}

\* The pairs <<tomlfile argument, pyproject.toml of the cwd>> for a table.
TomlInputs(table) ==
    IF table # EmptyDict
    THEN {<<Doc(table), NoFile>>, <<NoFile, Doc(table)>>}
    ELSE {<<NoFile, NoFile>>, <<NoFile, Doc(table)>>}
         \cup {<<d, NoFile>> : d \in OddDocs}

Init ==
    /\ \E S \in UpTo(CliOptions, MaxGiven) :
          /\ argv \in Fill(S, CliPool)
          /\ \E T \in UpTo(TomlKeys, MaxGiven - Cardinality(S)) :
                \E table \in Fill(T, TomlPool) :
                    \E files \in TomlInputs(table) :
                        tomlfile = files[1] /\ pyproject = files[2]
    /\ fs \in {FixtureFS, BareFS}
    /\ cwd = <<DirB>>
    /\ pc = "parse_args"
    /\ cli_config = EmptyDict
    /\ config = EmptyDict
    /\ detected_toml_path = ""
    /\ stdout = <<>>
    /\ calls = <<>>
    /\ exc = ""
    /\ arg = <<>>
    /\ ret = <<>>

Next ==
    \/ ParseArgs
    \/ LoadToml
    \/ MergeConfig
    \/ ReportToml
    \/ ExcludeFromGitignore
    \/ ExcludeNoGitignore
    \/ ExcludeExplicit
    \/ CheckOutputConfig

Spec == Init /\ [][Next]_vars

-----------------------------------------------------------------------------
(* What a call of make_config was given, read off its inputs. *)

\* The file make_config reads its TOML settings from, or NoFile.
TomlInput == IF tomlfile # NoFile THEN tomlfile ELSE pyproject

\* The [tool.vulture] table of a document, empty when it has none.
TableOf(doc) ==
    IF "tool" \notin DOMAIN doc.v THEN EmptyDict
    ELSE IF doc.v["tool"].t # "dict" THEN EmptyDict
    ELSE IF "vulture" \notin DOMAIN doc.v["tool"].v THEN EmptyDict
    ELSE IF doc.v["tool"].v["vulture"].t # "dict" THEN EmptyDict
    ELSE doc.v["tool"].v["vulture"].v

\* The options the TOML supplies.
GivenToml == IF TomlInput = NoFile THEN EmptyDict ELSE TableOf(TomlInput)

\* The option keys given on the command line.
GivenCli == DOMAIN argv \cap DOMAIN DEFAULTS

\* The paths of the merged configuration: the CLI's, else the TOML's.
MergedPaths ==
    IF "paths" \in GivenCli THEN argv["paths"].v
    ELSE IF "paths" \in DOMAIN GivenToml THEN GivenToml["paths"].v
    ELSE <<>>

\* The exclude patterns of the merged configuration.
MergedExclude ==
    IF "exclude" \in GivenCli THEN cli_config["exclude"].v
    ELSE IF "exclude" \in DOMAIN GivenToml THEN GivenToml["exclude"].v
    ELSE <<>>

Regexes(patterns) ==
    [i \in 1..Len(patterns) |-> fnmatch_to_regex(patterns[i])]

Called(name) == \E i \in 1..Len(calls) : calls[i] = name
RaisedBy(name) ==
    pc = "raised" /\ calls # <<>> /\ calls[Len(calls)] = name
Printed(message) == \E i \in 1..Len(stdout) : stdout[i] = message

-----------------------------------------------------------------------------
(* The claims about make_config, checked under Spec. *)

\* C1: for every option key given both on the command line and in the
\* [tool.vulture] table, the returned config holds the CLI value; for
\* exclude it holds the regex translations of the CLI patterns.
C1_CliPrecedence ==
    pc = "returned" =>
        \A key \in GivenCli \cap DOMAIN GivenToml :
            IF key = "exclude"
            THEN config[key] = PyList(Regexes(cli_config[key].v))
            ELSE config[key] = cli_config[key]

\* A returned config for which an option was given on both sides with
\* different values, exclude among the keys given on both sides.
C1_Witness ==
    /\ pc = "returned"
    /\ "exclude" \in GivenCli \cap DOMAIN GivenToml
    /\ GivenToml["exclude"] # cli_config["exclude"]

\* C2 as stated: every option key not given on the command line has the
\* TOML value when the TOML supplies one and DEFAULTS[key] otherwise.
C2_Original ==
    pc = "returned" =>
        \A key \in DOMAIN DEFAULTS \ GivenCli :
            config[key] = IF key \in DOMAIN GivenToml THEN GivenToml[key]
                          ELSE DEFAULTS[key]

\* C2 amended: that holds for every option key but exclude.  An exclude
\* not given on the command line is the regex translation of the TOML
\* patterns when the TOML gives a non-empty list, and otherwise the
\* patterns of the .gitignore found for the paths, or [] when none is found.
C2_TomlThenDefaults ==
    pc = "returned" =>
        \A key \in DOMAIN DEFAULTS \ GivenCli :
            IF key # "exclude"
            THEN config[key] = IF key \in DOMAIN GivenToml THEN GivenToml[key]
                               ELSE DEFAULTS[key]
            ELSE IF MergedExclude # <<>>
                 THEN config[key] = PyList(Regexes(GivenToml[key].v))
                 ELSE LET found == find_gitignore(PyList(MergedPaths), cwd, fs)
                      IN  IF found = None THEN config[key] = DEFAULTS[key]
                          ELSE config[key].v \in
                                   _parse_gitignore_excludes(found.v, fs)

\* A returned config whose verbose is the TOML's true, --verbose not given,
\* and whose paths are the TOML's, no positional path given.
C2_Witness ==
    /\ pc = "returned"
    /\ GivenCli \cap {"verbose", "paths"} = {}
    /\ {"verbose", "paths"} \subseteq DOMAIN GivenToml
    /\ GivenToml["verbose"] = PyBool(TRUE)
    /\ config["verbose"] = PyBool(TRUE)
    /\ config["paths"] = GivenToml["paths"]

\* C4: make_config never returns a config without paths, and the sanity
\* check ends the call with InputError exactly when neither the command
\* line nor the TOML supplies a path.
C4_MissingPaths ==
    /\ pc = "returned" => config["paths"].v # <<>> /\ MergedPaths # <<>>
    /\ RaisedBy("_check_output_config") =>
           exc = "InputError" /\ MergedPaths = <<>>
    /\ pc = "check" /\ MergedPaths = <<>> =>
           _check_output_config(config).exc = "InputError"

\* A call that ended in the InputError of the missing paths.
C4_Witness ==
    /\ RaisedBy("_check_output_config")
    /\ exc = "InputError"
    /\ config["paths"].v = <<>>

\* C5 as stated: on every call that ends in InputError nothing has been
\* printed and neither a .gitignore lookup nor an exclude translation has
\* been performed.
C5_Original ==
    pc = "raised" /\ exc = "InputError" =>
        /\ stdout = <<>>
        /\ ~Called("find_gitignore")
        /\ ~Called("fnmatch_to_regex")

\* C5 amended: an InputError of the input checks (unknown key, wrong value
\* type) is raised before anything is printed and before any .gitignore
\* lookup or exclude translation; the InputError of the missing paths is
\* raised last, after the .gitignore lookup or the exclude translation.
C5_FailFast ==
    pc = "raised" /\ exc = "InputError" =>
        IF RaisedBy("_check_output_config")
        THEN Called("find_gitignore") \/ Called("fnmatch_to_regex")
        ELSE /\ RaisedBy("_parse_args") \/ RaisedBy("_parse_toml")
             /\ stdout = <<>>
             /\ ~Called("find_gitignore")
             /\ ~Called("_parse_gitignore_excludes")
             /\ ~Called("fnmatch_to_regex")

\* A call the check of the TOML settings ended.
C5_Witness ==
    /\ RaisedBy("_parse_toml")
    /\ exc = "InputError"
    /\ GivenToml # EmptyDict

\* C6 as stated: every returned config has 0 <= min_confidence <= 100.
C6_Original ==
    pc = "returned" =>
        /\ config["min_confidence"].v >= 0
        /\ config["min_confidence"].v <= 100

\* C7: with a non-empty merged exclude list the returned exclude is the
\* list of the fnmatch_to_regex translations of its patterns, in order, and
\* the .gitignore is neither searched nor parsed.
C7_ExplicitExclude ==
    pc = "returned" /\ MergedExclude # <<>> =>
        /\ config["exclude"].t = "list"
        /\ Len(config["exclude"].v) = Len(MergedExclude)
        /\ \A i \in 1..Len(MergedExclude) :
               config["exclude"].v[i] = fnmatch_to_regex(MergedExclude[i])
        /\ ~Called("find_gitignore")
        /\ ~Called("_parse_gitignore_excludes")

\* A returned config made from two exclude patterns.
C7_Witness ==
    /\ pc = "returned"
    /\ Len(MergedExclude) = 2
    /\ Called("fnmatch_to_regex")

\* C8: with an empty merged exclude list the returned exclude is a list
\* _parse_gitignore_excludes produces for the .gitignore find_gitignore
\* finds for the merged paths; when none is found exclude stays empty and
\* the warning is printed; the call returns whenever there are paths.
C8_GitignoreExclude ==
    /\ pc = "returned" /\ MergedExclude = <<>> =>
           LET found == find_gitignore(PyList(MergedPaths), cwd, fs)
           IN  IF found # None
               THEN /\ config["exclude"].v \in
                           _parse_gitignore_excludes(found.v, fs)
                    /\ ~Printed(WarningMessage)
               ELSE /\ config["exclude"] = PyList(<<>>)
                    /\ Printed(WarningMessage)
    /\ RaisedBy("_check_output_config") => MergedPaths = <<>>

\* A returned config whose exclude came from the .gitignore of the
\* submodule, the only path given being a file in it.
C8_Witness ==
    /\ pc = "returned"
    /\ MergedExclude = <<>>
    /\ config["exclude"] = PyList(<< <<"gitwildmatch:", "y">> >>)

-----------------------------------------------------------------------------
(* The helpers called on their own: _check_input_config, _parse_toml and   *)
(* _parse_args on the inputs drawn below.                                   *)

\* int(), str(), list(), bool() of the tests and one more of each kind.
ValuePool ==
    {PyInt(0), PyInt(1), PyBool(FALSE), PyBool(TRUE), PyStr(<<>>),
     PyList(<<>>), PyList(<< <<"x">> >>)}

\* The mappings of at most MaxData keys, known or not, to those values.
DataDicts == UNION {[S -> ValuePool] : S \in UpTo(TomlKeys, MaxData)}

\* [tool.foo] with an array of mixed types.
FooTable ==
    PyDict("problem_array" :>
               PyList(<<PyDict("a" :> PyInt(1)), PyList(<<2, 3, 4>>),
                        PyStr(<<"f">>)>>))

\* A document from what it holds under [tool] and beside it.
DocOf(tool_items, with_foo, with_project) ==
    PyDict((IF with_foo \/ tool_items # EmptyDict
            THEN "tool" :> PyDict(tool_items
                                  @@ (IF with_foo THEN "foo" :> FooTable
                                      ELSE EmptyDict))
            ELSE EmptyDict)
           @@ (IF with_project
               THEN "project" :> PyDict("name" :> PyStr(<<"p">>))
               ELSE EmptyDict))

InitInput ==
    /\ \/ \E data \in DataDicts :
             arg = [fn |-> "_check_input_config", data |-> PyDict(data)]
       \/ \E table \in DataDicts, with_foo, with_project \in BOOLEAN :
             arg = [fn |-> "_parse_toml",
                    data |-> DocOf("vulture" :> PyDict(table), with_foo,
                                   with_project)]
       \/ \E with_foo, with_project \in BOOLEAN :
             arg = [fn |-> "_parse_toml",
                    data |-> DocOf(EmptyDict, with_foo, with_project)]
       \/ \E with_foo, with_project \in BOOLEAN :
             arg = [fn |-> "_parse_toml",
                    data |-> DocOf("vulture" :> PyStr(<<"x">>), with_foo,
                                   with_project)]
       \/ \E with_project \in BOOLEAN :
             arg = [fn |-> "_parse_toml",
                    data |-> PyDict(("tool" :> PyInt(1))
                                    @@ DocOf(EmptyDict, FALSE, with_project).v)]
       \/ \E S \in UpTo(CliOptions, MaxData) : \E args \in Fill(S, CliPool) :
             arg = [fn |-> "_parse_args", data |-> PyDict(args)]
    /\ pc = "call"
    /\ ret = <<>>
    /\ argv = EmptyDict
    /\ tomlfile = NoFile
    /\ pyproject = NoFile
    /\ fs = BareFS
    /\ cwd = <<>>
    /\ cli_config = EmptyDict
    /\ config = EmptyDict
    /\ detected_toml_path = ""
    /\ stdout = <<>>
    /\ calls = <<>>
    /\ exc = ""

CallCheckInputConfig ==
    /\ pc = "call"
    /\ arg.fn = "_check_input_config"
    /\ ret' = _check_input_config(arg.data.v)
    /\ pc' = "done"
    /\ UNCHANGED <<argv, tomlfile, pyproject, fs, cwd, cli_config, config,
                   detected_toml_path, stdout, calls, exc, arg>>

CallParseToml ==
    /\ pc = "call"
    /\ arg.fn = "_parse_toml"
    /\ ret' = _parse_toml(arg.data)
    /\ pc' = "done"
    /\ UNCHANGED <<argv, tomlfile, pyproject, fs, cwd, cli_config, config,
                   detected_toml_path, stdout, calls, exc, arg>>

CallParseArgs ==
    /\ pc = "call"
    /\ arg.fn = "_parse_args"
    /\ ret' = _parse_args(arg.data.v)
    /\ pc' = "done"
    /\ UNCHANGED <<argv, tomlfile, pyproject, fs, cwd, cli_config, config,
                   detected_toml_path, stdout, calls, exc, arg>>

NextInput ==
    \/ CallCheckInputConfig
    \/ CallParseToml
    \/ CallParseArgs

SpecInput == InitInput /\ [][NextInput]_vars

\* The type each option must have.
ExpectedType(key) ==
    CASE key = "min_confidence" -> "int"
      [] key \in {"make_whitelist", "sort_by_size", "verbose"} -> "bool"
      [] key \in {"paths", "exclude", "ignore_decorators", "ignore_names"}
            -> "list"

OptionKeys ==
    {"min_confidence", "paths", "exclude", "ignore_decorators",
     "ignore_names", "make_whitelist", "sort_by_size", "verbose"}

\* Every key is an option and every value has exactly its option's type.
Acceptable(data) ==
    \A key \in DOMAIN data :
        key \in OptionKeys /\ data[key].t = ExpectedType(key)

\* Whether `tool` or `tool.vulture` is there without being a table.
NotATable(doc) ==
    \/ "tool" \in DOMAIN doc.v /\ doc.v["tool"].t # "dict"
    \/ /\ "tool" \in DOMAIN doc.v
       /\ doc.v["tool"].t = "dict"
       /\ "vulture" \in DOMAIN doc.v["tool"].v
       /\ doc.v["tool"].v["vulture"].t # "dict"

\* C3: _check_input_config accepts a mapping exactly when every key is a
\* key of DEFAULTS and every value has exactly the type of the key's
\* default, and raises InputError otherwise; the TOML settings and the
\* parsed CLI arguments are returned only when they pass this check.
C3_CheckInputConfig ==
    pc = "done" =>
        /\ arg.fn = "_check_input_config" =>
               /\ ret.exc = "" <=> Acceptable(arg.data.v)
               /\ ret.exc # "" => ret.exc = "InputError"
        /\ arg.fn = "_parse_toml" /\ ~NotATable(arg.data) =>
               /\ ret.exc = "InputError" <=> ~Acceptable(TableOf(arg.data))
               /\ ret.exc = "" => Acceptable(ret.value)
        /\ arg.fn = "_parse_args" /\ ret.exc = "" => Acceptable(ret.value)

\* A bool given for min_confidence beside an acceptable option: rejected.
C3_Witness ==
    /\ pc = "done"
    /\ arg.fn = "_check_input_config"
    /\ "min_confidence" \in DOMAIN arg.data.v
    /\ arg.data.v["min_confidence"] = PyBool(FALSE)
    /\ Acceptable(Restrict(arg.data.v, DOMAIN arg.data.v \ {"min_confidence"}))
    /\ Cardinality(DOMAIN arg.data.v) = 2
    /\ ret.exc = "InputError"

\* C10 as stated: _parse_toml returns the contents of the [tool.vulture]
\* table, an empty mapping when the file has none, whatever else the file
\* holds, and raises nothing.
C10_Original ==
    pc = "done" /\ arg.fn = "_parse_toml" => ret = Return(TableOf(arg.data))

\* C10 amended: when the [tool.vulture] table passes _check_input_config,
\* _parse_toml returns exactly its contents, an empty mapping when the file
\* has no `tool` or no `tool.vulture` entry, and the tables and values
\* elsewhere in the file change nothing; when the table fails the check it
\* raises InputError; when `tool` or `tool.vulture` is not a table the call
\* fails with AttributeError.
C10_ParseToml ==
    pc = "done" /\ arg.fn = "_parse_toml" =>
        IF NotATable(arg.data) THEN ret.exc = "AttributeError"
        ELSE IF Acceptable(TableOf(arg.data))
             THEN ret = Return(TableOf(arg.data))
             ELSE ret.exc = "InputError"

\* A file with [tool.foo], [project] and a non-empty [tool.vulture] table,
\* whose contents are returned.
C10_Witness ==
    /\ pc = "done"
    /\ arg.fn = "_parse_toml"
    /\ "project" \in DOMAIN arg.data.v
    /\ ~NotATable(arg.data)
    /\ "foo" \in DOMAIN arg.data.v["tool"].v
    /\ TableOf(arg.data) # EmptyDict
    /\ ret = Return(TableOf(arg.data))

-----------------------------------------------------------------------------
(* find_gitignore called on its own, over every tree below.                 *)

\* The places of the tree: the root, a, b, a/a and a/b.
Places == {<<>>, <<DirA>>, <<DirB>>, <<DirA, DirA>>, <<DirA, DirB>>}

\* The file systems: the root is a directory, a directory's parent is one,
\* and a .gitignore file lies in a directory.
FileSystems ==
    UNION {{[dirs |-> D,
             lines |-> [p \in {Append(d, GitignoreName) : d \in G} |-> <<>>]] :
               G \in SUBSET D} :
           D \in {X \in SUBSET Places :
                     <<>> \in X /\ \A d \in X : d = <<>> \/ Front(d) \in X}}

\* The path strings: /, /a, /b, /a/a, /a/b, a, ../b
PathStrings ==
    {<<"/">>, <<"/", "a">>, <<"/", "b">>, <<"/", "a", "/", "a">>,
     <<"/", "a", "/", "b">>, <<"a">>, <<".", ".", "/", "b">>}

\* The lists of at most n path strings.
PathLists(n) == UNION {[1..k -> PathStrings] : k \in 0..n}

InitGitignore ==
    /\ fs \in FileSystems
    /\ cwd \in fs.dirs
    /\ \/ \E paths \in PathLists(MaxPaths) :
             arg = [fn |-> "find_gitignore", data |-> PyList(paths)]
       \/ \E path \in PathStrings :
             arg = [fn |-> "find_gitignore", data |-> PyStr(path)]
       \/ arg = [fn |-> "find_gitignore", data |-> None]
    /\ pc = "call"
    /\ ret = <<>>
    /\ argv = EmptyDict
    /\ tomlfile = NoFile
    /\ pyproject = NoFile
    /\ cli_config = EmptyDict
    /\ config = EmptyDict
    /\ detected_toml_path = ""
    /\ stdout = <<>>
    /\ calls = <<>>
    /\ exc = ""

CallFindGitignore ==
    /\ pc = "call"
    /\ arg.fn = "find_gitignore"
    /\ ret' = find_gitignore(arg.data, cwd, fs)
    /\ pc' = "done"
    /\ UNCHANGED <<argv, tomlfile, pyproject, fs, cwd, cli_config, config,
                   detected_toml_path, stdout, calls, exc, arg>>

NextGitignore == CallFindGitignore

SpecGitignore == InitGitignore /\ [][NextGitignore]_vars

\* The resolved paths of a call: the given ones, the cwd when none is given.
GivenPaths ==
    LET given == IF arg.data.t = "list" THEN arg.data.v
                 ELSE IF arg.data.t = "str" /\ arg.data.v # <<>>
                      THEN <<arg.data.v>>
                 ELSE <<>>
    IN  IF given = <<>> THEN <<cwd>>
        ELSE [i \in 1..Len(given) |-> Resolve(given[i], cwd)]

\* d is an ancestor of path: above it, or the path itself when that is an
\* existing directory.
IsAncestor(d, path) ==
    \/ Len(d) < Len(path) /\ IsPrefix(d, path)
    \/ d = path /\ path \in fs.dirs

\* The common ancestors of all the paths of the call.
CommonAncestors ==
    {d \in {SubSeq(GivenPaths[1], 1, n) : n \in 0..Len(GivenPaths[1])} :
        \A i \in 1..Len(GivenPaths) : IsAncestor(d, GivenPaths[i])}

HoldsGitignore(d) == Append(d, GitignoreName) \in DOMAIN fs.lines

-----------------------------------------------------------------------------
(* The order of the steps of make_config, checked under Spec.               *)

\* The merge and the defaults are done: config holds every key of DEFAULTS.
Merged == DOMAIN DEFAULTS \subseteq DOMAIN config

\* The exclude resolution is done: a .gitignore lookup or a translation.
ExcludeResolved == Called("find_gitignore") \/ Called("fnmatch_to_regex")

\* C11: the CLI arguments are parsed and validated first: until then no TOML
\* file has been read and nothing else has been called, and when the parse
\* ends the run (SystemExit) or fails validation, no TOML file has been
\* read, no .gitignore lookup has been done and the missing-paths check has
\* not run; the missing-paths check runs last, once, after the merge, the
\* defaults and the exclude resolution.
C11_ParseArgsFirstCheckLast ==
    /\ pc = "parse_args" => calls = <<>> /\ config = EmptyDict
    /\ calls # <<>> => calls[1] = "_parse_args"
    /\ RaisedBy("_parse_args") =>
           /\ calls = <<"_parse_args">>
           /\ config = EmptyDict
           /\ detected_toml_path = ""
           /\ stdout = <<>>
    /\ pc = "raised" /\ exc = "SystemExit" => RaisedBy("_parse_args")
    /\ \A i \in 1..Len(calls) :
           calls[i] = "_check_output_config" =>
               /\ i = Len(calls)
               /\ pc \in {"returned", "raised"}
               /\ Merged
               /\ ExcludeResolved

\* --version beside a TOML file whose settings would fail the check: the
\* run ends in the CLI parse and the file is never read.
C11_Witness ==
    /\ RaisedBy("_parse_args")
    /\ exc = "SystemExit"
    /\ "version" \in DOMAIN argv
    /\ TomlInput # NoFile
    /\ ~Acceptable(GivenToml)

-----------------------------------------------------------------------------
(* The shape of the config make_config returns, checked under Spec.         *)

\* The option keys that neither the command line nor the TOML supplied.
Defaulted == DOMAIN DEFAULTS \ (GivenCli \cup DOMAIN GivenToml)

\* C12: every config make_config returns has exactly the keys of DEFAULTS,
\* each value has the type of its default (int for min_confidence, bool for
\* the three flags, list for the four list options), and paths is not
\* empty, whatever the command line and the TOML supplied.
C12_CompleteWellTyped ==
    pc = "returned" =>
        /\ DOMAIN config = DOMAIN DEFAULTS
        /\ \A key \in DOMAIN config :
               /\ TypeOf(config[key]) = TypeOf(DEFAULTS[key])
               /\ TypeOf(config[key]) = ExpectedType(key)
        /\ config["paths"].v # <<>>

\* A config returned from a mix of the three sources: an option from the
\* command line, another from the TOML only, and one left to its default.
C12_Witness ==
    /\ pc = "returned"
    /\ GivenCli # {}
    /\ DOMAIN GivenToml \ GivenCli # {}
    /\ Defaulted # {}
    /\ "min_confidence" \in DOMAIN GivenToml \ GivenCli

====
